---- MODULE Spec2Model ----
(***************************************************************************)
(* Model of the upload handlers of src/api/videos.ts and                   *)
(* src/api/thumbnails.ts: the video upload (scratch file, object store),   *)
(* the thumbnail upload that persists to the assets directory, the         *)
(* thumbnail upload that keeps the image in the in-memory registry         *)
(* videoThumbnails, and the registry's GET handler.                        *)
(*                                                                         *)
(* Every handler is an async function on a single-threaded event loop:     *)
(* the code between two awaits runs without interleaving, so each action   *)
(* below is one such stretch of code, beginning with the completion of the *)
(* awaited operation (whose effect and result the environment chooses)     *)
(* and ending at the next await or at the handler's end.  The multipart    *)
(* body reaches the handler when `await req.formData()` completes, so the  *)
(* uploaded file is drawn in the action that follows that await.           *)
(***************************************************************************)
EXTENDS Integers, FiniteSets

\* ------------------------------------------------------------------ bounds

\* Requests the server accepts in one behaviour.
MaxRequests == 3

\* ------------------------------------------------------------ value spaces

Users == {"u1", "u2"}

\* The user every record of the store belongs to; the other user owns none.
Owner == "u1"

\* A bearer token is modelled by the identity it carries; "bad" is a missing
\* or invalid credential.
InvalidToken == "bad"

Tokens == Users \cup {InvalidToken}

\* Records of the video store, and route parameters that name none.
VideoIDs == {"v1"}

AbsentID == "v9"

NoParam == ""

ParamIds == VideoIDs \cup {AbsentID, NoParam}

MediaTypes == {"video/mp4", "image/png"}

\* The frame size of the uploaded MP4 videos (what a probe of the file would
\* report); the handler reads neither number.
Frame == [width |-> 1920, height |-> 1080]

ShiftLeft(x, n) == x * 2^n

VIDEO_MAX_UPLOAD_SIZE == ShiftLeft(1, 30)

THUMBNAIL_MAX_UPLOAD_SIZE == ShiftLeft(10, 20)

Sizes(max) == {max, max + 1}

\* -------------------------------------------------------------- data model

NoURL == [scheme |-> "none", dir |-> "", rand |-> 0, ext |-> "", id |-> ""]

NoName == [dir |-> "", rand |-> 0, ext |-> ""]

NoVideo == [id |-> "", userID |-> "", videoURL |-> NoURL, thumbnailURL |-> NoURL]

NoThumbnail == [data |-> 0, mediaType |-> ""]

UnreadFile == [state |-> "unread", size |-> 0, type |-> "", width |-> 0, height |-> 0]

\* formData.get(field) when the field is absent or is not a File.
MissingFile == [state |-> "missing", size |-> 0, type |-> "", width |-> 0, height |-> 0]

\* What formData.get(field) can yield: no File, or a File of some declared
\* size (at the handler's limit, or one byte above it) and content type.
FormFiles(max) ==
    {MissingFile} \cup
    { [state |-> "file", size |-> s, type |-> t,
       width |-> IF t = "video/mp4" THEN Frame.width ELSE 0,
       height |-> IF t = "video/mp4" THEN Frame.height ELSE 0] :
        s \in Sizes(max), t \in MediaTypes }

IdleReq ==
    [ pc |-> "idle", handler |-> "", n |-> 0, videoId |-> "", token |-> "",
      userID |-> "", file |-> UnreadFile, video |-> NoVideo, fileName |-> NoName,
      status |-> "", resp |-> NoVideo, thumb |-> NoThumbnail,
      calls |-> {}, effects |-> {}, ioFail |-> "", cleanup |-> "",
      snapAt |-> 0, stale |-> FALSE ]

VARIABLES
    db,               \* cfg.db: the video records, by id
    videoThumbnails,  \* the registry Map of videos.ts
    s3,               \* objects of the bucket behind cfg.s3Client
    tmpFiles,         \* names of the files under /tmp
    assets,           \* files under cfg.assetsRoot
    inflight,         \* the requests being handled (at most two overlap)
    variant,          \* which handlerUploadThumbnail the deployment routes to
    nStarted,         \* requests accepted so far
    hist              \* history of committed writes, by record id

vars == <<db, videoThumbnails, s3, tmpFiles, assets, inflight, variant, nStarted, hist>>

NoHist ==
    [ writers |-> {}, putters |-> {}, lastWriter |-> 0,
      lastOK |-> NoThumbnail, lastStored |-> NoThumbnail,
      videoURL |-> NoURL, thumbnailURL |-> NoURL ]

Init ==
    /\ db = [ v \in VideoIDs |->
                [ id |-> v, userID |-> Owner,
                  videoURL |-> NoURL, thumbnailURL |-> NoURL ] ]
    /\ videoThumbnails = [ v \in VideoIDs |-> NoThumbnail ]
    /\ s3 = {}
    /\ tmpFiles = {}
    /\ assets = {}
    /\ inflight = {}
    /\ nStarted = 0
    /\ variant \in {"assets", "registry"}
    /\ hist = [ v \in VideoIDs |-> NoHist ]

\* ----------------------------------------------------------- collaborators

\* getBearerToken + validateJWT: the caller's identity, or a throw.
TokenValid(token) == token \in Users

validateJWT(token) == token

\* getVideo: the record, or undefined.
getVideo(d, videoId) == IF videoId \in DOMAIN d THEN d[videoId] ELSE NoVideo

\* updateVideo: writes the whole record back under its id.
updateVideo(d, video) == [d EXCEPT ![video.id] = video]

\* ---------------------------------------------------------- shared helpers

Fail(q, status) == [q EXCEPT !.pc = "done", !.status = status]

IsFile(file) == file.state = "file"

NewRequest(handler, videoId, token) ==
    [IdleReq EXCEPT !.handler = handler, !.n = nStarted + 1,
                    !.videoId = videoId, !.token = token]

\* A handler's last stretch of code returns the response: nothing else runs
\* between the handler's end and the request leaving the server.
NoneDone == \A q \in inflight : q.pc # "done"

\* The interleavings modelled are those of two overlapping requests.
CanStart ==
    /\ NoneDone
    /\ nStarted < MaxRequests
    /\ Cardinality(inflight) <= 1

At(q, handler, pc) == NoneDone /\ q.handler = handler /\ q.pc = pc

\* A new request enters, already run up to its first await (or to its end).
Accepts(q) == inflight' = inflight \cup {q}

\* The request q continues as q2.
Becomes(q, q2) == inflight' = (inflight \ {q}) \cup {q2}

\* The history one successful updateVideo leaves behind.
Committed(h, q, video) ==
    [h EXCEPT !.writers = @ \cup {q.userID},
              !.lastWriter = q.n,
              !.videoURL = IF q.handler = "video" THEN video.videoURL ELSE @,
              !.thumbnailURL = IF q.handler = "video" THEN @ ELSE video.thumbnailURL]

\* ------------------------------------------------------ handlerUploadVideo

\* Line 34 comparing against nothing: any record with an owner passes.
VideoIsOwnerBroken(video, userID) == video.userID # ""

\* Line 34: video.userID !== userID throws UserForbiddenError.
VideoIsOwner(video, userID) == video.userID = userID

\* Line 46 with >= for >.
VideoExceedsLimitBroken(size) == size >= VIDEO_MAX_UPLOAD_SIZE

\* Line 46: videoFile.size > MAX_UPLOAD_SIZE throws BadRequestError.
VideoExceedsLimit(size) == size > VIDEO_MAX_UPLOAD_SIZE

VideoTypeAllowed(type) == type = "video/mp4"

VideoFileName(q) == [dir |-> "", rand |-> q.n, ext |-> "mp4"]

VideoURLOf(fileName) ==
    [scheme |-> "s3", dir |-> fileName.dir, rand |-> fileName.rand,
     ext |-> fileName.ext, id |-> ""]

UpdatedVideo(video, videoURL) == [video EXCEPT !.videoURL = videoURL]

\* Line 83, with a check that the record is still the one read at line 28.
WriteBackIfUnchanged(d, video, updatedVideo) ==
    IF d[video.id] = video THEN updateVideo(d, updatedVideo) ELSE d

\* Line 83: the rebuilt record is written back, whatever the store holds.
WriteBack(d, video, updatedVideo) == updateVideo(d, updatedVideo)

\* Line 69 without its await: a rejected write is not thrown into the handler.
S3WriteNotAwaited(res) == FALSE

\* Line 69: the awaited write throws when the object store rejects it.
S3WriteThrows(res) == res # "ok"

\* Line 91 removing nothing.
UnlinkBroken(files, name) == files

\* Line 91: a successful fs.unlink removes the file.
Unlink(files, name) == files \ {name}

\* Lines 16-39: ParseTarget, Authenticate, LoadRecord, Authorize, up to the
\* await of req.formData().
handlerUploadVideo_Authorize ==
    /\ CanStart
    /\ \E videoId \in ParamIds, token \in Tokens :
         LET q0 == NewRequest("video", videoId, token)
             q1 == [q0 EXCEPT !.userID = validateJWT(token)]
             video == getVideo(db, videoId)
         IN Accepts(IF videoId = NoParam THEN Fail(q0, "BadRequest")
                ELSE IF ~TokenValid(token) THEN Fail(q0, "Unauthorized")
                ELSE IF video = NoVideo THEN Fail(q1, "NotFound")
                ELSE IF ~VideoIsOwner(video, q1.userID) THEN Fail(q1, "Forbidden")
                ELSE [q1 EXCEPT !.video = video, !.snapAt = hist[videoId].lastWriter,
                                !.calls = {"formData"}, !.pc = "formData"])
    /\ nStarted' = nStarted + 1
    /\ UNCHANGED <<variant, db, videoThumbnails, s3, tmpFiles, assets, hist>>

\* Lines 39-65: the form data arrives; file, size and type checks; the random
\* file name; up to the await of Bun.write(tempFilePath, videoFile).
handlerUploadVideo_Validate ==
    \E q \in inflight :
        /\ At(q, "video", "formData")
        /\ \E file \in FormFiles(VIDEO_MAX_UPLOAD_SIZE) :
             LET q0 == [q EXCEPT !.file = file]
             IN Becomes(q, IF ~IsFile(file) THEN Fail(q0, "BadRequest")
                    ELSE IF VideoExceedsLimit(file.size) THEN Fail(q0, "BadRequest")
                    ELSE IF ~VideoTypeAllowed(file.type) THEN Fail(q0, "BadRequest")
                    ELSE [q0 EXCEPT !.fileName = VideoFileName(q0),
                                    !.calls = @ \cup {"Bun.write"}, !.pc = "writeTemp"])
        /\ UNCHANGED <<variant, db, videoThumbnails, s3, tmpFiles, assets, nStarted, hist>>

\* Lines 65-69: Bun.write to the scratch file completes (written, or thrown
\* with or without a partial file left behind); on success, up to the await
\* of s3File.write; on a throw, into the finally block.
handlerUploadVideo_WriteTemp ==
    \E q \in inflight :
        /\ At(q, "video", "writeTemp")
        /\ \E res \in {"ok", "partial", "none"} :
             /\ tmpFiles' = IF res = "none" THEN tmpFiles
                            ELSE tmpFiles \cup {q.fileName}
             /\ Becomes(q, IF res = "ok"
                    THEN [q EXCEPT !.effects = @ \cup {"tmp"},
                                   !.calls = @ \cup {"s3.write"}, !.pc = "s3Write"]
                    ELSE [q EXCEPT !.effects = IF res = "partial" THEN @ \cup {"tmp"} ELSE @,
                                   !.ioFail = "tmp", !.status = "InternalError",
                                   !.calls = @ \cup {"unlink"}, !.pc = "unlink"])
        /\ UNCHANGED <<variant, db, videoThumbnails, s3, assets, nStarted, hist>>

\* Lines 69-91: s3File.write completes; on success the record is rebuilt from
\* the snapshot of line 28 and written back, and the response is built; then
\* the finally block, up to the await of fs.unlink.
handlerUploadVideo_PutObject ==
    \E q \in inflight :
        /\ At(q, "video", "s3Write")
        /\ \E res \in {"ok", "error"}, dbOk \in BOOLEAN :
             LET updatedVideo == UpdatedVideo(q.video, VideoURLOf(q.fileName))
                 stored == res = "ok"
                 thrown == S3WriteThrows(res)
                 written == ~thrown /\ dbOk
             IN /\ (thrown => dbOk)      \* updateVideo is not reached: one outcome
                /\ s3' = IF stored THEN s3 \cup {[key |-> q.fileName, type |-> "video/mp4"]}
                         ELSE s3
                /\ db' = IF written THEN WriteBack(db, q.video, updatedVideo) ELSE db
                /\ hist' = IF written
                           THEN [hist EXCEPT ![q.videoId] = Committed(@, q, updatedVideo)]
                           ELSE hist
                /\ Becomes(q, [q EXCEPT
                        !.effects = @ \cup (IF stored THEN {"s3"} ELSE {})
                                      \cup (IF written THEN {"db"} ELSE {}),
                        !.calls = @ \cup (IF thrown THEN {} ELSE {"updateVideo"})
                                    \cup {"unlink"},
                        !.ioFail = IF res # "ok" THEN "s3" ELSE IF ~dbOk THEN "db" ELSE "",
                        !.status = IF written THEN "OK" ELSE "InternalError",
                        !.resp = IF written THEN updatedVideo ELSE NoVideo,
                        !.stale = written /\ hist[q.videoId].lastWriter # q.snapAt,
                        !.pc = "unlink"])
        /\ UNCHANGED <<variant, videoThumbnails, tmpFiles, assets, nStarted>>

\* Lines 87-95: fs.unlink completes: the file is removed, or the call throws
\* (the file was never created, or the removal failed and the file stays);
\* a throw is logged and the pending outcome stands.
handlerUploadVideo_Cleanup ==
    \E q \in inflight :
        /\ At(q, "video", "unlink")
        /\ \E res \in {"removed", "failed"} :
             LET exists == q.fileName \in tmpFiles
             IN /\ (~exists => res = "failed")
                /\ tmpFiles' = IF res = "removed" THEN Unlink(tmpFiles, q.fileName) ELSE tmpFiles
                /\ Becomes(q, [q EXCEPT !.cleanup = IF ~exists THEN "enoent" ELSE res,
                               !.pc = "done"])
        /\ UNCHANGED <<variant, db, videoThumbnails, s3, assets, nStarted, hist>>

\* ------------------------------- handlerUploadThumbnail (src/api/thumbnails.ts)

getFileExtension(mediaType) ==
    CASE mediaType = "image/jpeg" -> "jpg"
      [] mediaType = "image/jpg" -> "jpg"
      [] mediaType = "image/png" -> "png"
      [] mediaType = "image/gif" -> "gif"
      [] mediaType = "image/webp" -> "webp"
      [] mediaType = "image/svg+xml" -> "svg"
      [] OTHER -> "jpg"

ThumbnailExceedsLimit(size) == size > THUMBNAIL_MAX_UPLOAD_SIZE

ThumbnailTypeAllowed(mediaType) == ~(mediaType # "image/jpeg" /\ mediaType # "image/png")

ThumbnailIsOwner(video, userID) == video.userID = userID

ThumbnailFileName(q) == [dir |-> "", rand |-> q.n, ext |-> getFileExtension(q.file.type)]

AssetURLOf(fileName) ==
    [scheme |-> "assets", dir |-> "", rand |-> fileName.rand, ext |-> fileName.ext, id |-> ""]

UpdatedThumbnail(video, thumbnailURL) == [video EXCEPT !.thumbnailURL = thumbnailURL]

AssetWriteThrows(res) == res # "ok"

\* Lines 24-35: ParseTarget and Authenticate, up to the await of req.formData().
handlerUploadThumbnail_Authenticate ==
    /\ CanStart
    /\ variant = "assets"
    /\ \E videoId \in ParamIds, token \in Tokens :
         LET q0 == NewRequest("thumbnail", videoId, token)
         IN Accepts(IF videoId = NoParam THEN Fail(q0, "BadRequest")
                ELSE IF ~TokenValid(token) THEN Fail(q0, "Unauthorized")
                ELSE [q0 EXCEPT !.userID = validateJWT(token),
                                !.calls = {"formData"}, !.pc = "formData"])
    /\ nStarted' = nStarted + 1
    /\ UNCHANGED <<variant, db, videoThumbnails, s3, tmpFiles, assets, hist>>

\* Lines 35-58: the form data arrives; file, size and type checks, up to the
\* await of thumbnail.arrayBuffer().
handlerUploadThumbnail_Validate ==
    \E q \in inflight :
        /\ At(q, "thumbnail", "formData")
        /\ \E file \in FormFiles(THUMBNAIL_MAX_UPLOAD_SIZE) :
             LET q0 == [q EXCEPT !.file = file]
             IN Becomes(q, IF ~IsFile(file) THEN Fail(q0, "BadRequest")
                    ELSE IF ThumbnailExceedsLimit(file.size) THEN Fail(q0, "BadRequest")
                    ELSE IF ~ThumbnailTypeAllowed(file.type) THEN Fail(q0, "BadRequest")
                    ELSE [q0 EXCEPT !.calls = @ \cup {"arrayBuffer"}, !.pc = "arrayBuffer"])
        /\ UNCHANGED <<variant, db, videoThumbnails, s3, tmpFiles, assets, nStarted, hist>>

\* Lines 58-81: the bytes are in memory; LoadRecord and Authorize; the random
\* file name, up to the await of Bun.write(filePath, data).
handlerUploadThumbnail_Authorize ==
    \E q \in inflight :
        /\ At(q, "thumbnail", "arrayBuffer")
        /\ LET video == getVideo(db, q.videoId)
           IN Becomes(q, IF video = NoVideo THEN Fail(q, "NotFound")
                  ELSE IF ~ThumbnailIsOwner(video, q.userID) THEN Fail(q, "Forbidden")
                  ELSE [q EXCEPT !.video = video, !.snapAt = hist[q.videoId].lastWriter,
                                 !.fileName = ThumbnailFileName(q),
                                 !.calls = @ \cup {"Bun.write"}, !.pc = "write"])
        /\ UNCHANGED <<variant, db, videoThumbnails, s3, tmpFiles, assets, nStarted, hist>>

\* Lines 81-96: Bun.write to the assets directory completes (written, or
\* thrown with or without a partial file); on success the record is rebuilt
\* from the snapshot of line 61 and written back, and the response is built.
handlerUploadThumbnail_Persist ==
    \E q \in inflight :
        /\ At(q, "thumbnail", "write")
        /\ \E res \in {"ok", "partial", "none"}, dbOk \in BOOLEAN :
             LET updatedVideo == UpdatedThumbnail(q.video, AssetURLOf(q.fileName))
                 thrown == AssetWriteThrows(res)
                 written == ~thrown /\ dbOk
             IN /\ (thrown => dbOk)      \* updateVideo is not reached: one outcome
                /\ assets' = IF res = "none" THEN assets
                             ELSE assets \cup {[name |-> q.fileName, complete |-> res = "ok"]}
                /\ db' = IF written THEN updateVideo(db, updatedVideo) ELSE db
                /\ hist' = IF written
                           THEN [hist EXCEPT ![q.videoId] = Committed(@, q, updatedVideo)]
                           ELSE hist
                /\ Becomes(q, [q EXCEPT
                        !.effects = @ \cup (IF res = "none" THEN {} ELSE {"assets"})
                                      \cup (IF written THEN {"db"} ELSE {}),
                        !.calls = @ \cup (IF thrown THEN {} ELSE {"updateVideo"}),
                        !.ioFail = IF res # "ok" THEN "assets" ELSE IF ~dbOk THEN "db" ELSE "",
                        !.status = IF written THEN "OK" ELSE "InternalError",
                        !.resp = IF written THEN updatedVideo ELSE NoVideo,
                        !.stale = written /\ hist[q.videoId].lastWriter # q.snapAt,
                        !.pc = "done"])
        /\ UNCHANGED <<variant, videoThumbnails, s3, tmpFiles, nStarted>>

\* ------------------- videoThumbnails and its handlers (src/api/videos.ts)

\* Line 180 keeping an entry that is already there.
MapSetIfAbsent(m, key, value) == IF m[key] = NoThumbnail THEN [m EXCEPT ![key] = value] ELSE m

\* Map.prototype.set: the entry under key is replaced.
MapSet(m, key, value) == [m EXCEPT ![key] = value]

\* Map.prototype.get: the entry, or undefined.
MapGet(m, key) == IF key \in DOMAIN m THEN m[key] ELSE NoThumbnail

RegistryExceedsLimit(size) == size > THUMBNAIL_MAX_UPLOAD_SIZE

RegistryIsOwner(video, userID) == video.userID = userID

RegistryURLOf(videoId) ==
    [scheme |-> "api", dir |-> "", rand |-> 0, ext |-> "", id |-> videoId]

\* Lines 113-133: the whole GET handler (it awaits nothing).
handlerGetThumbnail ==
    /\ CanStart
    /\ variant = "registry"
    /\ \E videoId \in ParamIds :
         LET q0 == NewRequest("get", videoId, "")
             video == getVideo(db, videoId)
             thumbnail == MapGet(videoThumbnails, videoId)
         IN Accepts(IF videoId = NoParam THEN Fail(q0, "BadRequest")
                ELSE IF video = NoVideo THEN Fail(q0, "NotFound")
                ELSE IF thumbnail = NoThumbnail THEN Fail(q0, "NotFound")
                ELSE [q0 EXCEPT !.thumb = thumbnail, !.status = "OK", !.pc = "done"])
    /\ nStarted' = nStarted + 1
    /\ UNCHANGED <<variant, db, videoThumbnails, s3, tmpFiles, assets, hist>>

\* Lines 137-148: ParseTarget and Authenticate, up to the await of req.formData().
registryUploadThumbnail_Authenticate ==
    /\ CanStart
    /\ variant = "registry"
    /\ \E videoId \in ParamIds, token \in Tokens :
         LET q0 == NewRequest("registry", videoId, token)
         IN Accepts(IF videoId = NoParam THEN Fail(q0, "BadRequest")
                ELSE IF ~TokenValid(token) THEN Fail(q0, "Unauthorized")
                ELSE [q0 EXCEPT !.userID = validateJWT(token),
                                !.calls = {"formData"}, !.pc = "formData"])
    /\ nStarted' = nStarted + 1
    /\ UNCHANGED <<variant, db, videoThumbnails, s3, tmpFiles, assets, hist>>

\* Lines 148-166: the form data arrives; file and size checks (the media type
\* is taken as declared), up to the await of thumbnail.arrayBuffer().
registryUploadThumbnail_Validate ==
    \E q \in inflight :
        /\ At(q, "registry", "formData")
        /\ \E file \in FormFiles(THUMBNAIL_MAX_UPLOAD_SIZE) :
             LET q0 == [q EXCEPT !.file = file]
             IN Becomes(q, IF ~IsFile(file) THEN Fail(q0, "BadRequest")
                    ELSE IF RegistryExceedsLimit(file.size) THEN Fail(q0, "BadRequest")
                    ELSE [q0 EXCEPT !.calls = @ \cup {"arrayBuffer"}, !.pc = "arrayBuffer"])
        /\ UNCHANGED <<variant, db, videoThumbnails, s3, tmpFiles, assets, nStarted, hist>>

\* Lines 166-198: the bytes are in memory; LoadRecord and Authorize; the
\* registry entry is set; the record is rebuilt and written back; the
\* response is built.  Nothing is awaited in between.
registryUploadThumbnail_Store ==
    \E q \in inflight :
        /\ At(q, "registry", "arrayBuffer")
        /\ \E dbOk \in BOOLEAN :
             LET video == getVideo(db, q.videoId)
                 allowed == video # NoVideo /\ RegistryIsOwner(video, q.userID)
                 entry == [data |-> q.n, mediaType |-> q.file.type]
                 updatedVideo == UpdatedThumbnail(video, RegistryURLOf(q.videoId))
                 written == allowed /\ dbOk
             IN /\ (~allowed => dbOk)    \* updateVideo is not reached: one outcome
                /\ videoThumbnails' = IF allowed THEN MapSet(videoThumbnails, q.videoId, entry)
                                      ELSE videoThumbnails
                /\ db' = IF written THEN updateVideo(db, updatedVideo) ELSE db
                /\ hist' = IF allowed
                           THEN [hist EXCEPT ![q.videoId] =
                                   [(IF written THEN Committed(@, q, updatedVideo) ELSE @)
                                      EXCEPT !.putters = @ \cup {q.userID},
                                             !.lastStored = entry,
                                             !.lastOK = IF written THEN entry ELSE @]]
                           ELSE hist
                /\ Becomes(q, IF video = NoVideo THEN Fail(q, "NotFound")
                     ELSE IF ~allowed THEN Fail(q, "Forbidden")
                     ELSE [q EXCEPT
                        !.video = video,
                        !.effects = @ \cup {"registry"} \cup (IF written THEN {"db"} ELSE {}),
                        !.calls = @ \cup {"set", "updateVideo"},
                        !.ioFail = IF ~dbOk THEN "db" ELSE "",
                        !.status = IF written THEN "OK" ELSE "InternalError",
                        !.resp = IF written THEN updatedVideo ELSE NoVideo,
                        !.stale = written /\ hist[q.videoId].lastWriter # q.snapAt,
                        !.pc = "done"])
        /\ UNCHANGED <<variant, s3, tmpFiles, assets, nStarted>>

\* The response has been returned (or the error thrown): the request is over.
Respond ==
    \E q \in inflight :
        /\ q.pc = "done"
        /\ inflight' = inflight \ {q}
        /\ UNCHANGED <<variant, db, videoThumbnails, s3, tmpFiles, assets, nStarted, hist>>

Next ==
    \/ handlerUploadVideo_Authorize
    \/ handlerUploadThumbnail_Authenticate
    \/ registryUploadThumbnail_Authenticate
    \/ handlerGetThumbnail
    \/ handlerUploadVideo_Validate
    \/ handlerUploadVideo_WriteTemp
    \/ handlerUploadVideo_PutObject
    \/ handlerUploadVideo_Cleanup
    \/ handlerUploadThumbnail_Validate
    \/ handlerUploadThumbnail_Authorize
    \/ handlerUploadThumbnail_Persist
    \/ registryUploadThumbnail_Validate
    \/ registryUploadThumbnail_Store
    \/ Respond

Spec == Init /\ [][Next]_vars

\* ================================================================ claims

Uploads == {q \in inflight : q.handler \in {"video", "thumbnail", "registry"}}

Finished(q) == q.pc = "done"

\* The caller is authenticated, the record exists, and it is someone else's.
NonOwner(q) ==
    /\ TokenValid(q.token)
    /\ q.videoId \in VideoIDs
    /\ db[q.videoId].userID # q.token

LimitOf(q) ==
    IF q.handler = "video" THEN VIDEO_MAX_UPLOAD_SIZE ELSE THUMBNAIL_MAX_UPLOAD_SIZE

\* The content types the specification allows each upload handler.
ImageTypes ==
    {"image/jpeg", "image/jpg", "image/png", "image/gif", "image/webp", "image/svg+xml"}

TypeAllowed(q) ==
    CASE q.handler = "video" -> q.file.type = "video/mp4"
      [] q.handler = "thumbnail" -> q.file.type \in {"image/jpeg", "image/png"}
      [] OTHER -> q.file.type \in ImageTypes

\* The file passes every check the handler makes on it.
FileAccepted(q) ==
    /\ IsFile(q.file)
    /\ q.file.size <= LimitOf(q)
    /\ q.handler = "video" => q.file.type = "video/mp4"
    /\ q.handler = "thumbnail" => q.file.type \in {"image/jpeg", "image/png"}

\* The URL a successful upload q gives its record.
URLOf(q) ==
    CASE q.handler = "video" -> VideoURLOf(q.fileName)
      [] q.handler = "thumbnail" -> AssetURLOf(q.fileName)
      [] OTHER -> RegistryURLOf(q.videoId)

FieldOf(q, video) == IF q.handler = "video" THEN video.videoURL ELSE video.thumbnailURL

\* ---- C1
\* C1: an upload by an authenticated caller who does not own the existing
\* target record writes nothing (record, registry, object store, disk), never
\* ends 200, and ends Forbidden whenever its file passes the handler's checks
\* (the video handler rejects it before reading the file); every record
\* update and every registry entry was made by the record's owner.
C1_NonOwnerForbidden ==
    /\ \A q \in Uploads :
         NonOwner(q) =>
            /\ q.effects = {}
            /\ q.calls \subseteq {"formData", "arrayBuffer"}
            /\ q.status # "OK"
            /\ Finished(q) /\ (q.handler = "video" \/ FileAccepted(q))
                  => q.status = "Forbidden"
    /\ \A v \in VideoIDs :
         /\ hist[v].writers \subseteq {db[v].userID}
         /\ hist[v].putters \subseteq {db[v].userID}
         /\ videoThumbnails[v] # NoThumbnail => hist[v].putters # {}
         /\ db[v].videoURL # NoURL \/ db[v].thumbnailURL # NoURL => hist[v].writers # {}

\* A non-owner's thumbnail upload with an acceptable file has ended Forbidden,
\* on a record its owner had already written.
C1_Witness ==
    \E q \in Uploads :
        /\ NonOwner(q) /\ Finished(q) /\ q.status = "Forbidden"
        /\ FileAccepted(q)
        /\ hist[q.videoId].writers # {}

\* ---- C2
\* C2: an upload whose file is larger than the handler's limit has ended
\* BadRequest in the step that read it, having written nothing and called
\* nothing after req.formData(); a file of exactly the limit that the handler
\* otherwise accepts does not end BadRequest.
C2_OversizeRejected ==
    \A q \in Uploads :
        IsFile(q.file) =>
            /\ q.file.size > LimitOf(q) =>
                  /\ Finished(q) /\ q.status = "BadRequest"
                  /\ q.effects = {}
                  /\ q.calls = {"formData"}
            /\ q.file.size = LimitOf(q) /\ FileAccepted(q) => q.status # "BadRequest"

\* An oversized thumbnail has been rejected, after an upload of exactly the
\* limit had been written to the record.
C2_Witness ==
    \E q \in Uploads :
        /\ q.handler = "thumbnail" /\ q.file.size = THUMBNAIL_MAX_UPLOAD_SIZE + 1
        /\ Finished(q) /\ q.status = "BadRequest"
        /\ q.videoId \in VideoIDs
        /\ db[q.videoId].thumbnailURL # NoURL

\* ---- C3
\* C3: an owner's upload whose content type is outside the set allowed to
\* its handler writes nothing and, once ended, has ended BadRequest.
C3_DisallowedTypeRejected ==
    \A q \in Uploads :
        IsFile(q.file) /\ ~TypeAllowed(q) /\ q.token = Owner =>
            /\ q.effects = {}
            /\ Finished(q) => q.status = "BadRequest"

\* ---- C4
\* C4 as stated: once a video upload that reached the scratch-file step has
\* ended, its scratch file does not exist.
C4_ScratchFileGone ==
    \A q \in Uploads :
        q.handler = "video" /\ Finished(q) /\ q.fileName # NoName =>
            q.fileName \notin tmpFiles

\* C4 amended: once a video upload that reached the scratch-file step has
\* ended, fs.unlink has been called on its scratch file, and the file does
\* not exist unless that call failed on an existing file; the outcome is the
\* one decided before the cleanup (200 exactly when the record was written,
\* InternalError after a failed write), whatever the cleanup did.
C4_ScratchFileGoneUnlessUnlinkFailed ==
    \A q \in Uploads :
        q.handler = "video" /\ Finished(q) /\ q.fileName # NoName =>
            /\ "unlink" \in q.calls
            /\ q.cleanup \in {"removed", "enoent", "failed"}
            /\ q.cleanup # "failed" => q.fileName \notin tmpFiles
            /\ q.status = (IF q.ioFail = "" THEN "OK" ELSE "InternalError")
            /\ q.status = "OK" <=> "db" \in q.effects

\* A video upload whose object-store write failed has ended, its scratch file
\* removed.
C4_Witness ==
    \E q \in Uploads :
        /\ q.handler = "video" /\ Finished(q)
        /\ q.ioFail = "s3" /\ q.cleanup = "removed"
        /\ q.fileName \notin tmpFiles

\* ---- C5
\* C5: after a failed write to the persistence backend (object store in the
\* video upload, assets directory in the thumbnail upload) the request has
\* not called updateVideo, has not written the record, ends InternalError,
\* and the record's URL field is not the URL of this request's file.
C5_BackendFailureLeavesRecord ==
    \A q \in Uploads :
        q.ioFail \in {"s3", "assets"} =>
            /\ "updateVideo" \notin q.calls
            /\ "db" \notin q.effects
            /\ q.status = "InternalError"
            /\ q.resp = NoVideo
            /\ FieldOf(q, db[q.videoId]) # URLOf(q)
            /\ hist[q.videoId].lastWriter # q.n

\* The object-store write of a video upload failed on a record that already
\* had a video URL, which it still has.
C5_Witness ==
    \E q \in Uploads :
        /\ q.handler = "video" /\ q.ioFail = "s3" /\ Finished(q)
        /\ db[q.videoId].videoURL # NoURL
        /\ db[q.videoId].videoURL = q.video.videoURL

\* ---- C6
\* Classification of a frame size, as the specification gives it:
\* |w/h - 16/9| < 0.1 is landscape, |w/h - 9/16| < 0.1 is portrait.
Abs(x) == IF x < 0 THEN 0 - x ELSE x

Orientation(w, h) ==
    IF 10 * Abs(9 * w - 16 * h) < 9 * h THEN "landscape"
    ELSE IF 10 * Abs(16 * w - 9 * h) < 16 * h THEN "portrait"
    ELSE "other"

\* C6: the storage key of a successful video upload, and the video URL of its
\* record, carry the orientation of the uploaded video as their folder.
C6_KeyHasOrientationFolder ==
    \A q \in Uploads :
        q.handler = "video" /\ q.status = "OK" =>
            /\ q.fileName.dir = Orientation(q.file.width, q.file.height)
            /\ q.resp.videoURL.dir = Orientation(q.file.width, q.file.height)

\* ---- C7
\* C7: an upload for an absent record has ended NotFound, and an upload by a
\* non-owner has ended Forbidden, without the multipart body having been read.
C7_AuthorizeBeforeParseUpload ==
    \A q \in Uploads :
        q.videoId # NoParam /\ TokenValid(q.token) =>
            /\ q.videoId \notin VideoIDs \/ NonOwner(q) =>
                  /\ q.file = UnreadFile
                  /\ "formData" \notin q.calls
                  /\ Finished(q)
            /\ q.videoId \notin VideoIDs => q.status = "NotFound"
            /\ NonOwner(q) => q.status = "Forbidden"

\* ---- C8
GetRequests == {q \in inflight : q.handler = "get" /\ q.videoId # NoParam}

\* C8 as stated: GET answers NotFound when the record is absent or no upload
\* for the id has succeeded, and otherwise the bytes and content type of the
\* most recent successful upload for the id.
C8_GetReturnsLastSuccessfulUpload ==
    \A q \in GetRequests :
        IF q.videoId \notin VideoIDs THEN q.status = "NotFound"
        ELSE IF hist[q.videoId].lastOK = NoThumbnail THEN q.status = "NotFound"
        ELSE q.status = "OK" /\ q.thumb = hist[q.videoId].lastOK

C8_GetReturnsLastStoredInv ==
    /\ \A q \in GetRequests :
         /\ q.effects = {}
         /\ IF q.videoId \notin VideoIDs
            THEN q.status = "NotFound" /\ q.thumb = NoThumbnail
            ELSE IF hist[q.videoId].lastStored = NoThumbnail
            THEN q.status = "NotFound" /\ q.thumb = NoThumbnail
            ELSE q.status = "OK" /\ q.thumb = hist[q.videoId].lastStored
    /\ \A v \in VideoIDs : videoThumbnails[v] = hist[v].lastStored

GetStep == \E q \in inflight' : q \notin inflight /\ q.handler = "get"

\* C8 amended: GET answers NotFound when the record is absent or no upload
\* for the id has passed the owner check, and otherwise the bytes and content
\* type of the most recent upload for the id that passed the owner check,
\* whether or not the record update that followed succeeded; GET changes
\* neither the registry nor the record.
C8_GetReturnsLastStored ==
    /\ []C8_GetReturnsLastStoredInv
    /\ [][GetStep => UNCHANGED <<db, videoThumbnails>>]_vars

\* The third request, a GET, has returned the bytes of the second request,
\* an upload whose record update failed, over those of the first, an upload
\* that succeeded.
C8_Witness ==
    \E q \in GetRequests :
        /\ q.status = "OK" /\ q.thumb.data = 2
        /\ hist[q.videoId].lastOK.data = 1

\* ---- C9
\* C9: the record is the one written by the upload that called updateVideo
\* last, its URL field the URL of that upload's file; and an upload that
\* reaches updateVideo with no I/O failure answers 200 with the record it
\* wrote, also when the record had changed since the upload read it.
C9_LastWriterWins ==
    \A q \in Uploads :
        /\ q.status = "OK" /\ hist[q.videoId].lastWriter = q.n =>
              /\ db[q.videoId] = q.resp
              /\ FieldOf(q, db[q.videoId]) = URLOf(q)
        /\ "updateVideo" \in q.calls /\ q.ioFail = "" =>
              /\ q.status = "OK"
              /\ FieldOf(q, q.resp) = URLOf(q)

\* A video upload has answered 200 and is the last writer, although another
\* video upload wrote the record between its read and its write.
C9_Witness ==
    \E q \in Uploads :
        /\ q.handler = "video" /\ Finished(q) /\ q.status = "OK"
        /\ q.stale
        /\ hist[q.videoId].lastWriter = q.n
        /\ hist[q.videoId].thumbnailURL = NoURL
        /\ db[q.videoId].videoURL = VideoURLOf(q.fileName)

\* ---- C10
\* C10: each URL field of a record is the value the last completed upload of
\* that kind gave it.
C10_OnlyOwnFieldChanges ==
    \A v \in VideoIDs :
        /\ db[v].thumbnailURL = hist[v].thumbnailURL
        /\ db[v].videoURL = hist[v].videoURL

====
